---- MODULE Spec2Model ----
(***************************************************************************)
(* Pairwise ledger of splitje-be: users form groups, every join creates    *)
(* the mirrored ledger rows between the new member and the others, every   *)
(* posted transaction adjusts the two mirrored rows of payer and payee.    *)
(*                                                                         *)
(* The handlers run as concurrent requests against one PostgreSQL          *)
(* database.  Every handler opens its transaction with `db.begin()` and    *)
(* never sets an isolation level, so the statements run under the          *)
(* database default, READ COMMITTED: a statement sees the rows committed   *)
(* when it starts plus the rows its own transaction wrote; an UPDATE       *)
(* locks its row until commit and a second UPDATE of that row waits and    *)
(* then works on the latest committed version; an INSERT that collides     *)
(* with an uncommitted row of the same unique key waits for that           *)
(* transaction to end.  One action below is one statement of one request.  *)
(***************************************************************************)
EXTENDS Integers, Sequences, FiniteSets, Bags, TLC

NumUsers == 3
NumGroups == 1
NumProcs == 2
MaxTxns == 2
MaxRows == 4
IntBits == 3

UserIds == 1..NumUsers
GroupIds == 1..NumGroups
GroupNames == 1..NumGroups
Procs == 1..NumProcs

\* amount: i64 (scaled to IntBits bits)
I64Min == -(2 ^ (IntBits - 1))
I64Max == (2 ^ (IntBits - 1)) - 1
I64 == I64Min..I64Max
AmountInputs == {I64Min, 1}

VARIABLES
    users,          \* table "users": ids of the committed rows
    groups,         \* table "groups": committed rows [id, name]
    user_groups,    \* table "user_groups": committed rows <<group_id, user_id>>
    ledgers,        \* table "ledgers": committed rows, <<group_id, this_user, other_user>> -> amount
    transactions,   \* table "transactions": committed rows, a bag (the generated id left out)
    pc,             \* per request: the statement it is at
    req,            \* per request: the request being served
    tx,             \* per request: the uncommitted writes of its database transaction
    other_users_in_group_ids,   \* per request: local of the join path
    amount,         \* per request: local `amount` of create_transaction
    existing,       \* per request: members of the group committed when the join began
    response,       \* per request: outcome of the last request served
    body            \* per request: the Transaction of the Ok body, if that outcome has one

vars == <<users, groups, user_groups, ledgers, transactions, pc, req, tx,
          other_users_in_group_ids, amount, existing, response, body>>

----------------------------------------------------------------------------
\* Helpers

Range(s) == {s[i] : i \in 1..Len(s)}

Orderings(S) == {s \in [1..Cardinality(S) -> S] : Range(s) = S}

NoReq == [op |-> "none", group_id |-> 0, user_id |-> 0, payee_id |-> 0,
          amount |-> 0, tx_type |-> "Credit", name |-> 0]

EmptyTx == [groups |-> {}, user_groups |-> {}, ledger_ins |-> {},
            ledger_upd |-> <<>>, transactions |-> {}]

\* AckStatus::NotAck
NotAck == "NotAck"

\* An outcome that carries no Transaction
NoBody == [payer_id |-> 0, payee_id |-> 0, group_id |-> 0, amount |-> 0,
           tx_type |-> "none", ack_status |-> "none"]

\* DEFAULT of ledgers.amount
LedgerDefaultAmount == 0

OtherProcs(p) == Procs \ {p}

----------------------------------------------------------------------------
\* The storage layer as the handlers use it

\* What a statement of request p's transaction sees of "user_groups" and "groups"
VisibleUserGroups(p) == user_groups \cup tx[p].user_groups
VisibleGroupIds(p) == {g.id : g \in groups \cup tx[p].groups}

\* get_users_by_group_inner / Handler::get_users_by_group, run on the transaction
\* of p: users u JOIN user_groups ug ON u.id = ug.user_id WHERE ug.group_id = g
get_users_by_group(p, g) ==
    {u \in users : <<g, u>> \in VisibleUserGroups(p)}

\* get_groups_by_user, run on the pool: committed rows only
get_groups_by_user(u) ==
    {g.id : g \in {h \in groups : <<h.id, u>> \in user_groups}}

\* (mutant) the check asks whether the group exists, not whether the user is in it
is_user_in_group_GroupExists(u, g) == g \in {h.id : h \in groups}

\* is_user_in_group
is_user_in_group(u, g) == g \in get_groups_by_user(u)

\* unique(group_id, user_id) on "user_groups"
UserGroupsUniqueViolation(k) == k \in user_groups
UserGroupsInsertWaits(p, k) == \E q \in OtherProcs(p) : k \in tx[q].user_groups

\* unique(name) on "groups" (groups_name_key)
GroupsNameKeyViolation(n) == \E g \in groups : g.name = n
GroupsInsertWaits(p, n) ==
    \E q \in OtherProcs(p) : \E g \in tx[q].groups : g.name = n

\* unique(group_id, this_user, other_user) on "ledgers"
LedgersUniqueViolation(keys) == keys \cap DOMAIN ledgers # {}
LedgersInsertWaits(p, keys) ==
    \E q \in OtherProcs(p) : keys \cap tx[q].ledger_ins # {}

\* (mutant) no row lock: an UPDATE works on the committed amount at once
RowLockedByOther_Never(p, k) == FALSE

\* Row lock of an UPDATE, held by the updating transaction until it ends
RowLockedByOther(p, k) == \E q \in OtherProcs(p) : k \in DOMAIN tx[q].ledger_upd

\* tx.commit(): the writes of p's transaction become the committed rows
CommittedLedgers(p) ==
    [k \in DOMAIN ledgers \cup tx[p].ledger_ins |->
        IF k \in DOMAIN tx[p].ledger_upd THEN tx[p].ledger_upd[k]
        ELSE IF k \in DOMAIN ledgers THEN ledgers[k]
        ELSE LedgerDefaultAmount]

\* (mutant) the commit replaces the rows of "transactions" by its own
Commit_ReplacesLog(p) ==
    /\ groups' = groups \cup tx[p].groups
    /\ user_groups' = user_groups \cup tx[p].user_groups
    /\ ledgers' = CommittedLedgers(p)
    /\ transactions' = SetToBag(tx[p].transactions)
    /\ tx' = [tx EXCEPT ![p] = EmptyTx]

Commit(p) ==
    /\ groups' = groups \cup tx[p].groups
    /\ user_groups' = user_groups \cup tx[p].user_groups
    /\ ledgers' = CommittedLedgers(p)
    /\ transactions' = transactions (+) SetToBag(tx[p].transactions)
    /\ tx' = [tx EXCEPT ![p] = EmptyTx]

\* (mutant) only the ledger batch is discarded: the membership row stays
Rollback_KeepsMembership(p) ==
    /\ tx' = [tx EXCEPT ![p] = EmptyTx]
    /\ user_groups' = user_groups \cup tx[p].user_groups
    /\ UNCHANGED <<groups, ledgers, transactions>>

\* (mutant) the statements were autocommitted: what was written stays
Rollback_Autocommit(p) == Commit(p)

\* tx.rollback(), or the transaction dropped by `?`: the writes are discarded
Rollback(p) ==
    /\ tx' = [tx EXCEPT ![p] = EmptyTx]
    /\ UNCHANGED <<groups, user_groups, ledgers, transactions>>

\* The handler returns: the request slot is free again.  r is what the caller
\* gets: the Ok body ("group", "user_group_id", "transaction") or the error
\* ("unprocessable_entity", "user does not exist", "group does not exist",
\* "forbidden", "duplicate key: user_groups", "error"), or "panic"
ReturnBody(p, r, b) ==
    /\ pc' = [pc EXCEPT ![p] = "idle"]
    /\ req' = [req EXCEPT ![p] = NoReq]
    /\ other_users_in_group_ids' = [other_users_in_group_ids EXCEPT ![p] = <<>>]
    /\ amount' = [amount EXCEPT ![p] = 0]
    /\ existing' = [existing EXCEPT ![p] = {}]
    /\ response' = [response EXCEPT ![p] = r]
    /\ body' = [body EXCEPT ![p] = b]

Return(p, r) == ReturnBody(p, r, NoBody)

Goto(p, label) ==
    /\ pc' = [pc EXCEPT ![p] = label]
    /\ UNCHANGED <<response, body>>

----------------------------------------------------------------------------
\* Requests arriving

Init ==
    /\ users = {}
    /\ groups = {}
    /\ user_groups = {}
    /\ ledgers = [k \in {} |-> 0]
    /\ transactions = EmptyBag
    /\ pc = [p \in Procs |-> "idle"]
    /\ req = [p \in Procs |-> NoReq]
    /\ tx = [p \in Procs |-> EmptyTx]
    /\ other_users_in_group_ids = [p \in Procs |-> <<>>]
    /\ amount = [p \in Procs |-> 0]
    /\ existing = [p \in Procs |-> {}]
    /\ response = [p \in Procs |-> "none"]
    /\ body = [p \in Procs |-> NoBody]

Accept(p, r, label) ==
    /\ pc[p] = "idle"
    /\ pc' = [pc EXCEPT ![p] = label]
    /\ req' = [req EXCEPT ![p] = r]
    /\ response' = [response EXCEPT ![p] = "none"]
    /\ body' = [body EXCEPT ![p] = NoBody]
    /\ UNCHANGED <<users, groups, user_groups, ledgers, transactions,
                   tx, other_users_in_group_ids, amount, existing>>

\* Requests in flight that may still add a "transactions" row
PendingTxnInserts ==
    Cardinality({q \in Procs : req[q].op = "create_transaction"})

\* "users" rows plus "transactions" rows, those still to come included
Rows == Cardinality(users) + BagCardinality(transactions) + PendingTxnInserts

\* create_user: one autocommitted INSERT INTO "users"
create_user ==
    /\ Cardinality(users) < NumUsers
    /\ Rows < MaxRows
    /\ users' = users \cup {Cardinality(users) + 1}
    /\ UNCHANGED <<groups, user_groups, ledgers, transactions,
                   pc, req, tx, other_users_in_group_ids, amount,
                   existing, response, body>>

\* POST /v1/groups
PendingGroupInserts == Cardinality({q \in Procs : req[q].op = "create_group"})

RequestCreateGroup(p) ==
    \E u \in UserIds, n \in GroupNames :
        /\ \/ Cardinality(groups) + PendingGroupInserts < NumGroups
           \/ GroupsNameKeyViolation(n)
        /\ Accept(p, [NoReq EXCEPT !.op = "create_group", !.user_id = u, !.name = n],
                  "create_group_insert")

\* POST /v1/groups/:group_id/users
RequestAddUserToGroup(p) ==
    \E u \in UserIds, g \in GroupIds :
        Accept(p, [NoReq EXCEPT !.op = "add_user_to_group", !.user_id = u,
                                !.group_id = g],
               "add_user_to_group_insert")

\* POST /v1/transactions

RequestCreateTransaction(p) ==
    \E u \in users, payee \in users, g \in GroupIds, a \in AmountInputs,
       t \in {"Credit", "Debit"} :
        /\ BagCardinality(transactions) + PendingTxnInserts < MaxTxns
        /\ Rows < MaxRows
        /\ Accept(p, [NoReq EXCEPT !.op = "create_transaction", !.user_id = u,
                                   !.payee_id = payee, !.group_id = g,
                                   !.amount = a, !.tx_type = t],
                  "create_transaction_check_payer")

----------------------------------------------------------------------------
\* create_group (src/src/http/groups.rs, Handler::create_group)

\* The id the database generates for a new "groups" row: one no row has
NewGroupId ==
    CHOOSE i \in GroupIds :
        /\ i \notin {g.id : g \in groups} \cup
                     UNION {{g.id : g \in tx[q].groups} : q \in Procs}
        /\ \A j \in 1..(i - 1) :
              j \in {g.id : g \in groups} \cup
                    UNION {{g.id : g \in tx[q].groups} : q \in Procs}

\* (mutant) the INSERT INTO "groups" run on the pool: the group row is committed
\* before its owner is added
create_group_insert_OnPool(p) ==
    /\ pc[p] = "create_group_insert"
    /\ ~GroupsInsertWaits(p, req[p].name)
    /\ IF GroupsNameKeyViolation(req[p].name)
       THEN /\ Rollback(p)
            /\ Return(p, "unprocessable_entity")
            /\ UNCHANGED users
       ELSE /\ groups' = groups \cup {[id |-> NewGroupId, name |-> req[p].name]}
            /\ req' = [req EXCEPT ![p].group_id = NewGroupId]
            /\ Goto(p, "add_user_to_group_insert")
            /\ UNCHANGED <<users, user_groups, ledgers, transactions, tx,
                           other_users_in_group_ids, amount, existing>>

\* ctx.db.begin(); insert into "groups" (name) values ($1) returning id
create_group_insert(p) ==
    /\ pc[p] = "create_group_insert"
    /\ ~GroupsInsertWaits(p, req[p].name)
    /\ IF GroupsNameKeyViolation(req[p].name)
       THEN /\ Rollback(p)
            /\ Return(p, "unprocessable_entity")
            /\ UNCHANGED users
       ELSE /\ tx' = [tx EXCEPT ![p].groups =
                        {[id |-> NewGroupId, name |-> req[p].name]}]
            /\ req' = [req EXCEPT ![p].group_id = NewGroupId]
            /\ Goto(p, "add_user_to_group_insert")
            /\ UNCHANGED <<users, groups, user_groups, ledgers, transactions,
                           other_users_in_group_ids, amount, existing>>

\* tx.commit() of create_group
create_group_commit(p) ==
    /\ pc[p] = "create_group_commit"
    /\ Commit(p)
    /\ Return(p, "group")
    /\ UNCHANGED users

----------------------------------------------------------------------------
\* add_user_to_group_inner / create_ledger_entries (src/src/http/groups.rs),
\* Handler::add_user_to_group / Handler::init_ledger_entries (src/classic)

\* `if let Some(tx) = tx`: create_group hands its transaction down
GivenTx(p) == req[p].op = "create_group"

\* (mutant) only the group of the new row is checked to exist
UserGroupsFkeyViolations_GroupOnly(p, u, g) ==
    IF g \notin VisibleGroupIds(p) THEN {"user_groups_group_id_fkey"} ELSE {}

\* The foreign keys of "user_groups" the new row (u, g) breaks
UserGroupsFkeyViolations(p, u, g) ==
    (IF u \notin users THEN {"user_groups_user_id_fkey"} ELSE {}) \cup
    (IF g \notin VisibleGroupIds(p) THEN {"user_groups_group_id_fkey"} ELSE {})

\* .on_constraint("user_groups_user_id_fkey", ...) .on_constraint("user_groups_group_id_fkey", ...)
on_constraint(c) ==
    IF c = "user_groups_user_id_fkey" THEN "user does not exist"
    ELSE "group does not exist"

\* (mutant) the membership INSERT run on the pool instead of the transaction:
\* it is committed at once, before the ledger entries exist
add_user_to_group_insert_OnPool(p) ==
    LET g == req[p].group_id
        u == req[p].user_id
    IN  /\ pc[p] = "add_user_to_group_insert"
        /\ ~UserGroupsInsertWaits(p, <<g, u>>)
        /\ IF UserGroupsUniqueViolation(<<g, u>>) \/ u \notin users
              \/ g \notin VisibleGroupIds(p)
           THEN /\ Rollback(p)
                /\ Return(p, "error")
           ELSE /\ user_groups' = user_groups \cup {<<g, u>>}
                /\ existing' = [existing EXCEPT ![p] =
                                  {m \in users : <<g, m>> \in user_groups}]
                /\ Goto(p, "create_ledger_entries_select")
                /\ UNCHANGED <<groups, ledgers, transactions, req, tx,
                               other_users_in_group_ids, amount>>
        /\ UNCHANGED users

\* The database error of the unique key of "user_groups", passed on by `?`
\* (inside create_group it is replaced by Error::Anyhow)
DuplicateKey == "duplicate key: user_groups"

\* (mutant) INSERT ... ON CONFLICT DO NOTHING: a duplicate is not an error and
\* the join goes on to the ledger entries
add_user_to_group_insert_OnConflictDoNothing(p) ==
    LET g == req[p].group_id
        u == req[p].user_id
    IN  /\ pc[p] = "add_user_to_group_insert"
        /\ ~UserGroupsInsertWaits(p, <<g, u>>)
        /\ IF UserGroupsFkeyViolations(p, u, g) # {}
           THEN /\ Rollback(p)
                /\ \E c \in UserGroupsFkeyViolations(p, u, g) :
                      Return(p, IF GivenTx(p) THEN "error" ELSE on_constraint(c))
           ELSE /\ tx' = [tx EXCEPT ![p].user_groups =
                                      @ \cup ({<<g, u>>} \ user_groups)]
                /\ existing' = [existing EXCEPT ![p] =
                                  {m \in users : <<g, m>> \in user_groups}]
                /\ Goto(p, "create_ledger_entries_select")
                /\ UNCHANGED <<groups, user_groups, ledgers, transactions, req,
                               other_users_in_group_ids, amount>>
        /\ UNCHANGED users

\* insert into "user_groups" (user_id, group_id) values ($1, $2) returning id
add_user_to_group_insert(p) ==
    LET g == req[p].group_id
        u == req[p].user_id
    IN  /\ pc[p] = "add_user_to_group_insert"
        /\ ~UserGroupsInsertWaits(p, <<g, u>>)
        /\ IF UserGroupsUniqueViolation(<<g, u>>)
           THEN /\ Rollback(p)
                /\ Return(p, IF GivenTx(p) THEN "error" ELSE DuplicateKey)
           ELSE IF UserGroupsFkeyViolations(p, u, g) # {}
           THEN /\ Rollback(p)
                /\ \E c \in UserGroupsFkeyViolations(p, u, g) :
                      Return(p, IF GivenTx(p) THEN "error" ELSE on_constraint(c))
           ELSE /\ tx' = [tx EXCEPT ![p].user_groups = @ \cup {<<g, u>>}]
                /\ existing' = [existing EXCEPT ![p] =
                                  {m \in users : <<g, m>> \in user_groups}]
                /\ Goto(p, "create_ledger_entries_select")
                /\ UNCHANGED <<groups, user_groups, ledgers, transactions, req,
                               other_users_in_group_ids, amount>>
        /\ UNCHANGED users

\* (mutant) the new user appended once, not once per other member
left_side_ids_TakeOne(others, user_id) == others \o <<user_id>>

\* (mutant) only the rows (other, new user): the mirrored half is left out
left_side_ids_NoMirror(others, user_id) == others

\* [...current_users, user_id * len(current_users)]
left_side_ids(others, user_id) ==
    others \o [i \in 1..Len(others) |-> user_id]

\* (mutant) the right array built in the order of the left one
right_side_ids_AsLeft(others, user_id) ==
    others \o [i \in 1..Len(others) |-> user_id]

\* [user_id * len(current_users), ...current_users]
right_side_ids(others, user_id) ==
    [i \in 1..Len(others) |-> user_id] \o others

\* INSERT INTO "ledgers" (group_id, this_user, other_user)
\* VALUES ($1, unnest($2::uuid[]), unnest($3::uuid[])): the rows of the batch
LedgerRows(g, left, right) ==
    [i \in 1..Len(left) |-> <<g, left[i], right[i]>>]

\* The statement fails as a whole when a row of the batch breaks the unique key
LedgersBatchViolation(rows) ==
    \/ LedgersUniqueViolation(Range(rows))
    \/ Cardinality(Range(rows)) < Len(rows)

\* (mutant) the join path commits by itself whether or not the transaction is
\* the caller's
AfterLedgerEntries_AlwaysCommit(p) == "add_user_to_group_commit"

\* Where the join path goes once the ledger entries are in
AfterLedgerEntries(p) ==
    IF GivenTx(p) THEN "create_group_commit" ELSE "add_user_to_group_commit"

\* get_users_by_group_inner(ctx, &group_id, Some(tx)) ... filter(|id| id != &user_id)
create_ledger_entries_select(p) ==
    LET g == req[p].group_id
        u == req[p].user_id
    IN  /\ pc[p] = "create_ledger_entries_select"
        /\ \E others \in Orderings(get_users_by_group(p, g) \ {u}) :
            /\ other_users_in_group_ids' =
                   [other_users_in_group_ids EXCEPT ![p] = others]
            /\ Goto(p, IF others = <<>> THEN AfterLedgerEntries(p)
                       ELSE "create_ledger_entries_insert")
        /\ UNCHANGED <<users, groups, user_groups, ledgers, transactions,
                       req, tx, amount, existing>>

create_ledger_entries_insert(p) ==
    LET g == req[p].group_id
        u == req[p].user_id
        others == other_users_in_group_ids[p]
        rows == LedgerRows(g, left_side_ids(others, u), right_side_ids(others, u))
    IN  /\ pc[p] = "create_ledger_entries_insert"
        /\ ~LedgersInsertWaits(p, Range(rows))
        /\ IF LedgersBatchViolation(rows)
           THEN /\ Rollback(p)
                /\ Return(p, "error")
           ELSE /\ tx' = [tx EXCEPT ![p].ledger_ins = @ \cup Range(rows)]
                /\ Goto(p, AfterLedgerEntries(p))
                /\ UNCHANGED <<groups, user_groups, ledgers, transactions, req,
                               other_users_in_group_ids, amount, existing>>
        /\ UNCHANGED users

\* The SELECT of the other members or the bulk INSERT INTO "ledgers" returns Err
\* (a row of the batch breaks a constraint, the storage layer fails): `?` hands
\* the error up, the transaction is dropped, or rolled back by create_group
create_ledger_entries_fails(p) ==
    /\ pc[p] \in {"create_ledger_entries_select", "create_ledger_entries_insert"}
    /\ Rollback(p)
    /\ Return(p, "error")
    /\ UNCHANGED users

\* tx.commit() of add_user_to_group_inner
add_user_to_group_commit(p) ==
    /\ pc[p] = "add_user_to_group_commit"
    /\ Commit(p)
    /\ Return(p, "user_group_id")
    /\ UNCHANGED users

----------------------------------------------------------------------------
\* create_transaction (src/src/http/transactions.rs)

\* if !users::is_user_in_group(ctx, auth_user.user_id, group_id) { Forbidden }
create_transaction_check_payer(p) ==
    /\ pc[p] = "create_transaction_check_payer"
    /\ IF is_user_in_group(req[p].user_id, req[p].group_id)
       THEN /\ Goto(p, "create_transaction_check_payee")
            /\ UNCHANGED <<req, other_users_in_group_ids, amount, existing>>
       ELSE Return(p, "forbidden")
    /\ UNCHANGED <<users, groups, user_groups, ledgers, transactions,
                   tx>>

\* if !users::is_user_in_group(ctx, payee_id, group_id) { Forbidden }
create_transaction_check_payee(p) ==
    /\ pc[p] = "create_transaction_check_payee"
    /\ IF is_user_in_group(req[p].payee_id, req[p].group_id)
       THEN /\ Goto(p, "create_transaction_insert")
            /\ UNCHANGED <<req, other_users_in_group_ids, amount, existing>>
       ELSE Return(p, "forbidden")
    /\ UNCHANGED <<users, groups, user_groups, ledgers, transactions,
                   tx>>

\* `-req.transaction.amount` on i64: the negation of i64::MIN overflows; a build
\* with overflow checks panics, a build without them wraps to i64::MIN
Negate(a) ==
    IF a = I64Min
    THEN {[panic |-> TRUE, value |-> 0], [panic |-> FALSE, value |-> I64Min]}
    ELSE {[panic |-> FALSE, value |-> -a]}

\* let amount = if TxType::Debit == tx_type { -amount } else { amount }
SignedAmount(a, tx_type) ==
    IF tx_type = "Debit" THEN Negate(a) ELSE {[panic |-> FALSE, value |-> a]}

\* (mutant) the row inserted as already acknowledged
TransactionRow_Ack(r, amt) ==
    [payer_id |-> r.user_id, payee_id |-> r.payee_id,
     group_id |-> r.group_id, amount |-> amt, tx_type |-> r.tx_type,
     ack_status |-> "Ack"]

\* The row of INSERT INTO "transactions" (..., amount, tx_type, ack_status, ...)
TransactionRow(r, amt) ==
    [payer_id |-> r.user_id, payee_id |-> r.payee_id,
     group_id |-> r.group_id, amount |-> amt, tx_type |-> r.tx_type,
     ack_status |-> NotAck]

\* Ok(Json(TxBody { transaction: Transaction { ..., amount: req.transaction.amount,
\* tx_type: req.transaction.tx_type, ack_status: AckStatus::NotAck, ... } }))
ReturnedTransaction(r) ==
    [payer_id |-> r.user_id, payee_id |-> r.payee_id,
     group_id |-> r.group_id, amount |-> r.amount, tx_type |-> r.tx_type,
     ack_status |-> NotAck]

\* sign normalisation, ctx.db.begin(), INSERT INTO "transactions" ... RETURNING id
create_transaction_insert(p) ==
    /\ pc[p] = "create_transaction_insert"
    /\ \E n \in SignedAmount(req[p].amount, req[p].tx_type) :
        IF n.panic
        THEN /\ Return(p, "panic")
             /\ UNCHANGED tx
        ELSE /\ amount' = [amount EXCEPT ![p] = n.value]
             /\ tx' = [tx EXCEPT ![p].transactions =
                         {TransactionRow(req[p], n.value)}]
             /\ Goto(p, "create_transaction_update_payer")
             /\ UNCHANGED <<req, other_users_in_group_ids, existing>>
    /\ UNCHANGED <<users, groups, user_groups, ledgers, transactions>>

\* (mutant) an upsert: where no row matches, the row is created with the amount
UpdateLedger_Upsert(p, k, new, label) ==
    /\ ~RowLockedByOther(p, k)
    /\ IF new \notin I64
       THEN /\ Rollback(p)
            /\ Return(p, "error")
       ELSE /\ tx' = [tx EXCEPT ![p].ledger_upd = (k :> new) @@ @,
                                ![p].ledger_ins = @ \cup ({k} \ DOMAIN ledgers)]
            /\ Goto(p, label)
            /\ UNCHANGED <<groups, user_groups, ledgers, transactions, req,
                           other_users_in_group_ids, amount, existing>>
    /\ UNCHANGED users

\* UPDATE "ledgers" SET amount = <expr> WHERE (group_id, this_user, other_user) = k
\* no row matches: nothing is updated and the statement succeeds;
\* bigint out of range: the statement fails
UpdateLedger(p, k, new, label) ==
    /\ ~RowLockedByOther(p, k)
    /\ IF k \notin DOMAIN ledgers
       THEN /\ Goto(p, label)
            /\ UNCHANGED <<groups, user_groups, ledgers, transactions, req, tx,
                           other_users_in_group_ids, amount, existing>>
       ELSE IF new \notin I64
       THEN /\ Rollback(p)
            /\ Return(p, "error")
       ELSE /\ tx' = [tx EXCEPT ![p].ledger_upd = (k :> new) @@ @]
            /\ Goto(p, label)
            /\ UNCHANGED <<groups, user_groups, ledgers, transactions, req,
                           other_users_in_group_ids, amount, existing>>
    /\ UNCHANGED users

\* The amount an UPDATE of p's transaction finds in row k
CurrentAmount(p, k) ==
    IF k \in DOMAIN tx[p].ledger_upd THEN tx[p].ledger_upd[k]
    ELSE IF k \in DOMAIN ledgers THEN ledgers[k] ELSE 0

PayerKey(r) == <<r.group_id, r.user_id, r.payee_id>>
PayeeKey(r) == <<r.group_id, r.payee_id, r.user_id>>

\* SET amount = amount + $1 WHERE this_user = payer AND other_user = payee
PayerSideAmount(cur, amt) == cur + amt

\* (mutant) the payee side adjusted with the sign of the payer side
PayeeSideAmount_SameSign(cur, amt) == cur + amt

\* SET amount = amount - $1 WHERE this_user = payee AND other_user = payer
PayeeSideAmount(cur, amt) == cur - amt

create_transaction_update_payer(p) ==
    /\ pc[p] = "create_transaction_update_payer"
    /\ UpdateLedger(p, PayerKey(req[p]),
                    PayerSideAmount(CurrentAmount(p, PayerKey(req[p])), amount[p]),
                    "create_transaction_update_payee")

create_transaction_update_payee(p) ==
    /\ pc[p] = "create_transaction_update_payee"
    /\ UpdateLedger(p, PayeeKey(req[p]),
                    PayeeSideAmount(CurrentAmount(p, PayeeKey(req[p])), amount[p]),
                    "create_transaction_commit")

\* tx.commit() of create_transaction
create_transaction_commit(p) ==
    /\ pc[p] = "create_transaction_commit"
    /\ Commit(p)
    /\ ReturnBody(p, "transaction", ReturnedTransaction(req[p]))
    /\ UNCHANGED users

\* A statement of the posting's database transaction (begin, INSERT, either
\* UPDATE, commit) returns Err for a reason of the storage layer: `?` returns the
\* error and the dropped transaction is rolled back
create_transaction_fails(p) ==
    /\ pc[p] \in {"create_transaction_insert", "create_transaction_update_payer",
                  "create_transaction_update_payee", "create_transaction_commit"}
    /\ Rollback(p)
    /\ Return(p, "error")
    /\ UNCHANGED users

\* The row an UPDATE of p waits for, if it waits
WaitsFor(p, q) ==
    /\ q # p
    /\ \/ /\ pc[p] = "create_transaction_update_payer"
          /\ PayerKey(req[p]) \in DOMAIN tx[q].ledger_upd
       \/ /\ pc[p] = "create_transaction_update_payee"
          /\ PayeeKey(req[p]) \in DOMAIN tx[q].ledger_upd

RECURSIVE WaitsForWithin(_, _, _)
WaitsForWithin(p, q, n) ==
    \/ WaitsFor(p, q)
    \/ /\ n > 1
       /\ \E m \in Procs : WaitsFor(p, m) /\ WaitsForWithin(m, q, n - 1)

\* The database finds a cycle of lock waits and fails the statement of one of
\* the waiting transactions ("deadlock detected"), which `?` turns into Err
deadlock_detected(p) ==
    /\ \E q \in OtherProcs(p) :
          WaitsFor(p, q) /\ WaitsForWithin(q, p, NumProcs)
    /\ Rollback(p)
    /\ Return(p, "error")
    /\ UNCHANGED users

----------------------------------------------------------------------------

Next ==
    \/ create_user
    \/ \E p \in Procs :
        \/ RequestCreateGroup(p)
        \/ RequestAddUserToGroup(p)
        \/ RequestCreateTransaction(p)
        \/ create_group_insert(p)
        \/ create_group_commit(p)
        \/ add_user_to_group_insert(p)
        \/ create_ledger_entries_select(p)
        \/ create_ledger_entries_insert(p)
        \/ create_ledger_entries_fails(p)
        \/ add_user_to_group_commit(p)
        \/ create_transaction_check_payer(p)
        \/ create_transaction_check_payee(p)
        \/ create_transaction_insert(p)
        \/ create_transaction_update_payer(p)
        \/ create_transaction_update_payee(p)
        \/ create_transaction_commit(p)
        \/ create_transaction_fails(p)
        \/ deadlock_detected(p)

Spec == Init /\ [][Next]_vars

----------------------------------------------------------------------------
\* The two variants of the join path, each run from its first statement to its
\* return on a database D that no other request touches

Database ==
    [users |-> users, groups |-> groups, user_groups |-> user_groups,
     ledgers |-> ledgers]

Outcome(D, r) == [db |-> D, response |-> r]

\* The rows of table "ledgers" after the bulk INSERT of `rows`
InsertLedgerRows(L, rows) ==
    [k \in DOMAIN L \cup Range(rows) |->
        IF k \in DOMAIN L THEN L[k] ELSE LedgerDefaultAmount]

\* The bulk INSERT fails as a whole when a row breaks the unique key
BulkInsertViolation(L, rows) ==
    \/ Range(rows) \cap DOMAIN L # {}
    \/ Cardinality(Range(rows)) < Len(rows)

\* The foreign keys of "user_groups" the row (u, g) breaks in D
FkeyViolations(D, g, u) ==
    (IF u \notin D.users THEN {"user_groups_user_id_fkey"} ELSE {}) \cup
    (IF g \notin {h.id : h \in D.groups}
     THEN {"user_groups_group_id_fkey"} ELSE {})

\* HTTP layer: create_ledger_entries (the membership row of u is in D)
create_ledger_entries(D, g, u) ==
    {LET rows == LedgerRows(g, left_side_ids(others, u),
                               right_side_ids(others, u))
     IN  IF others = <<>> THEN Outcome(D, "ok")
         ELSE IF BulkInsertViolation(D.ledgers, rows) THEN Outcome(D, "error")
         ELSE Outcome([D EXCEPT !.ledgers = InsertLedgerRows(@, rows)], "ok") :
       others \in Orderings({m \in D.users : <<g, m>> \in D.user_groups} \ {u})}

\* HTTP layer: add_user_to_group_inner(ctx, auth_user, Path(group_id), None)
add_user_to_group_inner(D, g, u) ==
    IF <<g, u>> \in D.user_groups THEN {Outcome(D, DuplicateKey)}
    ELSE IF FkeyViolations(D, g, u) # {}
    THEN {Outcome(D, on_constraint(c)) : c \in FkeyViolations(D, g, u)}
    ELSE {IF r.response = "ok" THEN Outcome(r.db, "user_group_id")
          ELSE Outcome(D, "error") :
            r \in create_ledger_entries(
                     [D EXCEPT !.user_groups = @ \cup {<<g, u>>}], g, u)}

\* Logic layer: the arrays of Handler::init_ledger_entries
Handler_left_side_ids(others, user_id) ==
    others \o [i \in 1..Len(others) |-> user_id]

Handler_right_side_ids(others, user_id) ==
    [i \in 1..Len(others) |-> user_id] \o others

\* Logic layer: Handler::init_ledger_entries(group_id, user_id, others, tx)
Handler_init_ledger_entries(D, g, u, others) ==
    LET rows == LedgerRows(g, Handler_left_side_ids(others, u),
                              Handler_right_side_ids(others, u))
    IN  IF others = <<>> THEN Outcome(D, "ok")
        ELSE IF BulkInsertViolation(D.ledgers, rows) THEN Outcome(D, "error")
        ELSE Outcome([D EXCEPT !.ledgers = InsertLedgerRows(@, rows)], "ok")

\* (mutant) no filter: the new member is meant to be left out by reading the
\* members before the INSERT, but the read comes after it
Handler_other_users_NoFilter(D, g, u) ==
    {m \in D.users : <<g, m>> \in D.user_groups}

\* Logic layer: self.get_users_by_group(&group_id, Some(tx)) ...
\* .filter(|id| id != &user_id)
Handler_other_users(D, g, u) ==
    {m \in D.users : <<g, m>> \in D.user_groups} \ {u}

\* Logic layer: Handler::add_user_to_group(user, group, None)
Handler_add_user_to_group(D, g, u) ==
    IF <<g, u>> \in D.user_groups THEN {Outcome(D, DuplicateKey)}
    ELSE IF FkeyViolations(D, g, u) # {}
    THEN {Outcome(D, on_constraint(c)) : c \in FkeyViolations(D, g, u)}
    ELSE LET D1 == [D EXCEPT !.user_groups = @ \cup {<<g, u>>}]
         IN  {LET r == Handler_init_ledger_entries(D1, g, u, others)
              IN  IF r.response = "ok" THEN Outcome(r.db, "user_group_id")
                  ELSE Outcome(D, "error") :
                others \in Orderings(Handler_other_users(D1, g, u))}

\* One client, one request at a time, served by the HTTP-layer variant
SetDatabase(D) ==
    /\ users' = D.users
    /\ groups' = D.groups
    /\ user_groups' = D.user_groups
    /\ ledgers' = D.ledgers

Served(r, resp) ==
    /\ req' = [req EXCEPT ![1] = r]
    /\ response' = [response EXCEPT ![1] = resp]
    /\ UNCHANGED <<pc, tx, other_users_in_group_ids, amount, existing, body>>

VariantsCreateUser ==
    /\ Cardinality(users) < NumUsers
    /\ SetDatabase([Database EXCEPT !.users = @ \cup {Cardinality(users) + 1}])
    /\ Served([NoReq EXCEPT !.op = "create_user"], "user")
    /\ UNCHANGED transactions

\* create_group: the group row, then the join path on the same transaction
VariantsCreateGroup ==
    \E u \in UserIds, n \in GroupNames :
        /\ ~GroupsNameKeyViolation(n)
        /\ LET g == NewGroupId
               D == [Database EXCEPT !.groups = @ \cup {[id |-> g, name |-> n]}]
           IN  \E r \in add_user_to_group_inner(D, g, u) :
                  /\ IF r.response = "user_group_id"
                     THEN SetDatabase(r.db) ELSE SetDatabase(Database)
                  /\ Served([NoReq EXCEPT !.op = "create_group", !.user_id = u,
                                          !.name = n, !.group_id = g],
                            IF r.response = "user_group_id"
                            THEN "group" ELSE "error")
                  /\ UNCHANGED transactions

VariantsJoin ==
    \E u \in UserIds, g \in GroupIds :
        \E r \in add_user_to_group_inner(Database, g, u) :
            /\ SetDatabase(r.db)
            /\ Served([NoReq EXCEPT !.op = "add_user_to_group", !.user_id = u,
                                    !.group_id = g], r.response)
            /\ UNCHANGED transactions

\* create_transaction served to its commit: the joins that follow start from
\* ledger rows that are not all 0
VariantsPost ==
    \E u \in users, payee \in users, g \in GroupIds, a \in AmountInputs,
       t \in {"Credit", "Debit"} :
        LET r == [NoReq EXCEPT !.op = "create_transaction", !.user_id = u,
                               !.payee_id = payee, !.group_id = g,
                               !.amount = a, !.tx_type = t]
        IN  /\ BagCardinality(transactions) < MaxTxns
            /\ is_user_in_group(u, g)
            /\ is_user_in_group(payee, g)
            /\ \E n \in SignedAmount(a, t) :
                  LET posted ==
                        [k \in DOMAIN ledgers |->
                           IF k = PayerKey(r)
                           THEN PayerSideAmount(ledgers[k], n.value)
                           ELSE IF k = PayeeKey(r)
                           THEN PayeeSideAmount(ledgers[k], n.value)
                           ELSE ledgers[k]]
                  IN  /\ ~n.panic
                      /\ \A k \in DOMAIN posted : posted[k] \in I64
                      /\ SetDatabase([Database EXCEPT !.ledgers = posted])
                      /\ transactions' = transactions (+)
                                            SetToBag({TransactionRow(r, n.value)})
                      /\ Served(r, "transaction")

NextVariants ==
    \/ VariantsCreateUser
    \/ VariantsCreateGroup
    \/ VariantsJoin
    \/ VariantsPost

SpecVariants == Init /\ [][NextVariants]_vars

----------------------------------------------------------------------------
\* Vocabulary of the properties

MembersOf(g) == {u \in UserIds : <<g, u>> \in user_groups}

Mirror(k) == <<k[1], k[3], k[2]>>

Idle == \A p \in Procs : pc[p] = "idle"

\* The step in which the join of request p commits
JoinCommits(p) ==
    /\ pc[p] = "add_user_to_group_commit"
    /\ pc'[p] = "idle"

\* The step in which the posting of request p commits
PostCommits(p) ==
    /\ pc[p] = "create_transaction_commit"
    /\ pc'[p] = "idle"
    /\ response'[p] = "transaction"

----------------------------------------------------------------------------
\* C1 (Invariant I1): in every committed state every ledger row (G,A,B) has its
\* mirror row (G,B,A) and the two amounts are the negation of each other.
C1_I1 ==
    \A k \in DOMAIN ledgers :
        /\ Mirror(k) \in DOMAIN ledgers
        /\ ledgers[k] = -ledgers[Mirror(k)]

\* A posting between two distinct members has committed and their rows are not 0
C1_Witness ==
    /\ \E p \in Procs : pc[p] = "idle" /\ response[p] = "transaction"
    /\ \E k \in DOMAIN ledgers :
          /\ ledgers[k] # 0
          /\ {k[2], k[3]} \subseteq MembersOf(k[1])

\* C2 (Invariant I2): in every committed state, for every group G and every two
\* distinct committed members A and B of G, both rows (G,A,B) and (G,B,A) exist.
C2_I2 ==
    \A g \in GroupIds : \A a \in MembersOf(g), b \in MembersOf(g) :
        a # b => /\ <<g, a, b>> \in DOMAIN ledgers
                 /\ <<g, b, a>> \in DOMAIN ledgers

\* C3: a join never works on a stale snapshot: when the join of u commits, u has
\* both directed rows with every member whose own join committed while the join
\* of u was running, and every other member of the group.
C3_NoStaleSnapshot ==
    [][\A p \in Procs :
         JoinCommits(p) =>
           \A m \in MembersOf(req[p].group_id) \ {req[p].user_id} :
               /\ <<req[p].group_id, req[p].user_id, m>> \in DOMAIN ledgers'
               /\ <<req[p].group_id, m, req[p].user_id>> \in DOMAIN ledgers']_vars

\* C4: the membership row of a join and its ledger rows become visible together
\* at one commit: while the join runs, neither its membership row nor any of its
\* ledger rows is committed, and the step that commits the membership row of u
\* also commits both rows between u and every member that was there before.
InFlightJoinInvisible ==
    \A p \in Procs :
        /\ tx[p].user_groups \cap user_groups = {}
        /\ tx[p].ledger_ins \cap DOMAIN ledgers = {}
        /\ \A k \in tx[p].user_groups :
              \A r \in DOMAIN ledgers : ~(r[1] = k[1] /\ k[2] \in {r[2], r[3]})

C4_JoinAtomic ==
    [][/\ InFlightJoinInvisible
       /\ InFlightJoinInvisible'
       /\ \A k \in user_groups' \ user_groups :
            \E p \in Procs :
                /\ pc[p] \in {"add_user_to_group_commit", "create_group_commit"}
                /\ pc'[p] = "idle"
                /\ k = <<req[p].group_id, req[p].user_id>>
                /\ existing[p] \subseteq Range(other_users_in_group_ids[p])
                /\ \A m \in existing[p] :
                      /\ <<k[1], k[2], m>> \in DOMAIN ledgers' \ DOMAIN ledgers
                      /\ <<k[1], m, k[2]>> \in DOMAIN ledgers' \ DOMAIN ledgers]_vars

\* A join into a group that had members is about to commit: its membership row
\* and its ledger rows are written and not yet visible
C4_Witness ==
    \E p \in Procs :
        /\ pc[p] = "add_user_to_group_commit"
        /\ existing[p] # {}
        /\ tx[p].user_groups # {}
        /\ tx[p].ledger_ins # {}

\* C5 (Additivity): a committed credit posting of amt between two distinct
\* members raises row (G,payer,payee) by amt and lowers row (G,payee,payer) by amt.
C5_Additivity ==
    [][\A p \in Procs :
         (PostCommits(p) /\ req[p].tx_type = "Credit"
                         /\ req[p].user_id # req[p].payee_id) =>
           /\ {PayerKey(req[p]), PayeeKey(req[p])} \subseteq DOMAIN ledgers
           /\ ledgers'[PayerKey(req[p])] = ledgers[PayerKey(req[p])] + req[p].amount
           /\ ledgers'[PayeeKey(req[p])] = ledgers[PayeeKey(req[p])] - req[p].amount]_vars

\* C6: a posting whose payer or payee is not a member of the group when the
\* handler checks it is rejected (Forbidden) having written nothing: no
\* transaction row is added and no ledger amount changes.
NotAMember(p) ==
    \/ /\ pc[p] = "create_transaction_check_payer"
       /\ req[p].user_id \notin MembersOf(req[p].group_id)
    \/ /\ pc[p] = "create_transaction_check_payee"
       /\ req[p].payee_id \notin MembersOf(req[p].group_id)

C6_NotAMemberNoWrite ==
    [][\A p \in Procs :
         /\ (NotAMember(p) /\ pc'[p] # pc[p]) =>
               /\ pc'[p] = "idle"
               /\ response'[p] = "forbidden"
               /\ tx[p] = EmptyTx /\ tx'[p] = EmptyTx
               /\ transactions' = transactions
               /\ ledgers' = ledgers
         /\ (response'[p] = "forbidden" /\ response[p] # "forbidden") =>
               NotAMember(p)]_vars

\* A posting has just been rejected as Forbidden
C6_Witness ==
    \E p \in Procs : pc[p] = "idle" /\ response[p] = "forbidden"

\* C7: no transaction row is committed unless both mirrored rows
\* (group,payer,payee) and (group,payee,payer) exist and were adjusted with it.
C7_NoTransactionWithoutRows ==
    \A t \in BagToSet(transactions) :
        /\ <<t.group_id, t.payer_id, t.payee_id>> \in DOMAIN ledgers
        /\ <<t.group_id, t.payee_id, t.payer_id>> \in DOMAIN ledgers

\* C8 (Sign flip law): a committed debit posting of amt leaves the ledger
\* amounts a credit posting of -amt leaves from the same state: row
\* (G,payer,payee) raised by -amt, row (G,payee,payer) lowered by -amt.
CreditPosted(L, r, amt) ==
    [k \in DOMAIN L |->
        IF k = PayerKey(r) THEN L[k] + amt
        ELSE IF k = PayeeKey(r) THEN L[k] - amt
        ELSE L[k]]

C8_SignFlip ==
    [][\A p \in Procs :
         (PostCommits(p) /\ req[p].tx_type = "Debit") =>
            ledgers' = CreditPosted(ledgers, req[p], -req[p].amount)]_vars

\* C9 (Zero on join): when a join of u with existing-member list E commits, the
\* rows (G,u,m) and (G,m,u) exist with amount 0 for every m in E.
C9_ZeroOnJoin ==
    [][\A p \in Procs :
         JoinCommits(p) =>
           \A m \in Range(other_users_in_group_ids[p]) :
               /\ <<req[p].group_id, req[p].user_id, m>> \in DOMAIN ledgers'
               /\ <<req[p].group_id, m, req[p].user_id>> \in DOMAIN ledgers'
               /\ ledgers'[<<req[p].group_id, req[p].user_id, m>>] = 0
               /\ ledgers'[<<req[p].group_id, m, req[p].user_id>>] = 0]_vars

\* A join into a group with members has just committed and nothing was posted
C9_Witness ==
    /\ Idle
    /\ \E p \in Procs : response[p] = "user_group_id"
    /\ transactions = EmptyBag
    /\ DOMAIN ledgers # {}
    /\ \A k \in DOMAIN ledgers : ledgers[k] = 0

\* C10: a join adds only the 2*|E| rows between the new member and the members
\* of E and leaves the amount of every row that existed before unchanged.
C10_JoinFrame ==
    [][\A p \in Procs :
         JoinCommits(p) =>
           LET g == req[p].group_id
               u == req[p].user_id
               E == Range(other_users_in_group_ids[p])
               new == DOMAIN ledgers' \ DOMAIN ledgers
           IN  /\ \A k \in DOMAIN ledgers :
                     k \in DOMAIN ledgers' /\ ledgers'[k] = ledgers[k]
               /\ new = {<<g, u, m>> : m \in E} \cup {<<g, m, u>> : m \in E}
               /\ Cardinality(new) = 2 * Cardinality(E)]_vars

\* One client did everything in turn and its last request was a join: the third
\* member joined after a posting had moved the rows of the first two off 0
C10_Witness ==
    /\ Idle
    /\ \E p \in Procs :
          /\ response[p] = "user_group_id"
          /\ \A q \in OtherProcs(p) : response[q] = "none"
    /\ \E g \in GroupIds :
          /\ Cardinality(MembersOf(g)) = 3
          /\ \E k \in DOMAIN ledgers : k[1] = g /\ ledgers[k] # 0
          /\ Cardinality({k \in DOMAIN ledgers : k[1] = g /\ ledgers[k] = 0}) = 4

\* C11: a posting never creates or deletes a ledger row and changes the amount
\* of at most the rows (group,payer,payee) and (group,payee,payer); every other
\* ledger row, of this and of every other group, and every membership row is
\* left as it was by every step of the posting.
C11_PostFrame ==
    [][\A p \in Procs :
         (req[p].op = "create_transaction" /\ pc'[p] # pc[p]) =>
            /\ DOMAIN ledgers' = DOMAIN ledgers
            /\ \A k \in DOMAIN ledgers \ {PayerKey(req[p]), PayeeKey(req[p])} :
                  ledgers'[k] = ledgers[k]
            /\ user_groups' = user_groups]_vars

\* One client did everything in turn and its last request was a posting in a
\* group of three: two of the six rows were moved, four are still 0
C11_Witness ==
    /\ Idle
    /\ \E p \in Procs :
          /\ response[p] = "transaction"
          /\ \A q \in OtherProcs(p) : response[q] = "none"
    /\ \E g \in GroupIds :
          /\ Cardinality(MembersOf(g)) = 3
          /\ Cardinality({k \in DOMAIN ledgers : k[1] = g}) = 6
          /\ Cardinality({k \in DOMAIN ledgers : k[1] = g /\ ledgers[k] = 0}) = 4

\* C12: in every committed state the ledger of each group holds exactly one row
\* per ordered pair of distinct members: n*(n-1) rows for n members, no row with
\* this_user = other_user and no row that names a non-member (a key occurs once:
\* the rows are a function of the key).
C12_OneRowPerOrderedPair ==
    \A g \in GroupIds :
        LET rows == {k \in DOMAIN ledgers : k[1] = g}
            n == Cardinality(MembersOf(g))
        IN  /\ Cardinality(rows) = n * (n - 1)
            /\ \A k \in rows : k[2] # k[3]
            /\ \A k \in rows : {k[2], k[3]} \subseteq MembersOf(g)

\* C13: a join for a (group,user) pair that is already a committed membership
\* fails with the duplicate-membership error and changes nothing: the
\* membership rows and the ledger rows are the same after the call as before
\* it, and nothing of the failed request is left to be committed.
DuplicateJoin(p) ==
    /\ pc[p] = "add_user_to_group_insert"
    /\ <<req[p].group_id, req[p].user_id>> \in user_groups

UnknownUser(p) ==
    /\ pc[p] = "add_user_to_group_insert"
    /\ req[p].op = "add_user_to_group"
    /\ req[p].user_id \notin users

UnknownGroup(p) ==
    /\ pc[p] = "add_user_to_group_insert"
    /\ req[p].op = "add_user_to_group"
    /\ req[p].group_id \notin {h.id : h \in groups}

C14_UnknownUserOrGroup ==
    [][\A p \in Procs :
         /\ ((UnknownUser(p) \/ UnknownGroup(p)) /\ pc'[p] # pc[p]) =>
               /\ pc'[p] = "idle"
               /\ response'[p] \in {"user does not exist", "group does not exist"}
               /\ tx[p] = EmptyTx /\ tx'[p] = EmptyTx
               /\ user_groups' = user_groups
               /\ ledgers' = ledgers
         /\ (response'[p] = "user does not exist"
                /\ response[p] # "user does not exist") => UnknownUser(p)
         /\ (response'[p] = "group does not exist"
                /\ response[p] # "group does not exist") => UnknownGroup(p)]_vars

\* One join was refused for its unknown user, another for its unknown group
C14_Witness ==
    \E p \in Procs, q \in Procs :
        /\ pc[p] = "idle" /\ response[p] = "user does not exist"
        /\ pc[q] = "idle" /\ response[q] = "group does not exist"

\* C15: a posting is all-or-nothing: the only step of a posting that changes a
\* committed row is its successful commit, which adds its transaction row and
\* moves the two mirrored amounts by opposite deltas; every other step, the
\* failure of the INSERT, of either UPDATE or of the commit included, leaves
\* the committed transaction rows and ledger rows as they were, and a posting
\* that has ended keeps no uncommitted write.
LedgerDelta(k) ==
    IF k \in DOMAIN ledgers /\ k \in DOMAIN ledgers'
    THEN ledgers'[k] - ledgers[k] ELSE 0

C15_PostAllOrNothing ==
    [][\A p \in Procs :
         (req[p].op = "create_transaction" /\ pc'[p] # pc[p]) =>
            /\ IF PostCommits(p)
               THEN /\ tx[p].transactions # {}
                    /\ transactions' = transactions (+) SetToBag(tx[p].transactions)
                    /\ LedgerDelta(PayerKey(req[p])) = -LedgerDelta(PayeeKey(req[p]))
               ELSE /\ transactions' = transactions
                    /\ ledgers' = ledgers
            /\ pc'[p] = "idle" => tx'[p] = EmptyTx]_vars

\* A posting has written its transaction row and adjusted the payer's row, and
\* its UPDATE of the payee's row is about to fail (amount out of range)
C15_Witness ==
    \E p \in Procs :
        /\ pc[p] = "create_transaction_update_payee"
        /\ tx[p].transactions # {}
        /\ PayerKey(req[p]) \in DOMAIN tx[p].ledger_upd
        /\ PayeeKey(req[p]) \in DOMAIN ledgers
        /\ ~RowLockedByOther(p, PayeeKey(req[p]))
        /\ PayeeSideAmount(CurrentAmount(p, PayeeKey(req[p])), amount[p]) \notin I64

\* C16: the transaction row a posting persists holds the amount the caller
\* declared, not the sign-normalized one, together with the declared kind.
C16_DeclaredAmountStored ==
    [][\A p \in Procs :
         PostCommits(p) =>
            \E t \in BagToSet(transactions') :
                /\ transactions' = transactions (+) SetToBag({t})
                /\ t.amount = req[p].amount
                /\ t.tx_type = req[p].tx_type]_vars

ChecksDone(p) ==
    pc[p] \in {"create_transaction_check_payee", "create_transaction_insert"}

C18_ChecksInsideTransaction ==
    [][\A p \in Procs :
         (ChecksDone(p) /\ pc'[p] = pc[p]) =>
            /\ user_groups' = user_groups
            /\ ledgers' = ledgers]_vars

\* C19: for the new user u and the list E of the other members (no duplicates,
\* u not in it) the ledger initializer builds a left array (E, then u repeated
\* n times) and a right array (u repeated n times, then E) of length 2n each,
\* whose position-wise pairs are exactly {(m,u), (u,m) : m in E}, none twice,
\* and these are the rows it inserts; when E is empty it inserts nothing.
InitPairsInput(p) ==
    /\ req[p].user_id \notin Range(other_users_in_group_ids[p])
    /\ Cardinality(Range(other_users_in_group_ids[p])) =
          Len(other_users_in_group_ids[p])
    /\ other_users_in_group_ids[p] # <<>>

InitPairs(p) ==
    LET others == other_users_in_group_ids[p]
        u == req[p].user_id
        n == Len(others)
        left == left_side_ids(others, u)
        right == right_side_ids(others, u)
        pairs == {<<left[i], right[i]>> : i \in 1..Len(left)}
    IN  /\ Len(left) = 2 * n
        /\ Len(right) = 2 * n
        /\ \A i \in 1..n : /\ left[i] = others[i] /\ right[i] = u
                           /\ left[n + i] = u /\ right[n + i] = others[i]
        /\ pairs = {<<m, u>> : m \in Range(others)} \cup
                   {<<u, m>> : m \in Range(others)}
        /\ Cardinality(pairs) = 2 * n

C19_InitPairs ==
    [][\A p \in Procs :
         /\ pc[p] = "create_ledger_entries_insert" =>
               /\ InitPairsInput(p)
               /\ InitPairs(p)
               /\ pc'[p] \in {"add_user_to_group_commit", "create_group_commit"} =>
                     tx'[p].ledger_ins =
                        {<<req[p].group_id, req[p].user_id, m>> :
                             m \in Range(other_users_in_group_ids[p])} \cup
                        {<<req[p].group_id, m, req[p].user_id>> :
                             m \in Range(other_users_in_group_ids[p])}
         /\ (pc[p] = "create_ledger_entries_select"
                /\ pc'[p] \notin {pc[p], "idle"}
                /\ other_users_in_group_ids'[p] = <<>>) =>
               /\ pc'[p] \in {"add_user_to_group_commit", "create_group_commit"}
               /\ tx'[p].ledger_ins = {}]_vars

\* A join into a group of two has inserted its four rows and is about to commit
C19_Witness ==
    \E p \in Procs :
        /\ pc[p] = "add_user_to_group_commit"
        /\ Len(other_users_in_group_ids[p]) = 2
        /\ Cardinality(tx[p].ledger_ins) = 4

\* C20: the member list a join hands to the ledger initializer never contains
\* the joining user and is exactly the set of users who are members of the
\* group before this join takes effect.
C20_ListIsMembersBefore ==
    [][\A p \in Procs :
         JoinCommits(p) =>
            /\ req[p].user_id \notin Range(other_users_in_group_ids[p])
            /\ Range(other_users_in_group_ids[p]) = MembersOf(req[p].group_id)]_vars

\* C21: when the bulk insert of the ledger rows of a join fails, no row of the
\* batch persists and the membership row the join inserted before is discarded
\* with it: no step of a join but its commit changes a committed membership or
\* ledger row, and the failed join leaves nothing to be committed.
LedgerInsertFails(p) ==
    /\ pc[p] = "create_ledger_entries_insert"
    /\ pc'[p] = "idle"

C21_FailedBatchDiscardsJoin ==
    [][\A p \in Procs :
         /\ LedgerInsertFails(p) =>
               /\ response'[p] = "error"
               /\ tx'[p] = EmptyTx
               /\ user_groups' = user_groups
               /\ ledgers' = ledgers
         /\ (req[p].op = "add_user_to_group" /\ pc'[p] # pc[p]
                /\ ~JoinCommits(p)) =>
               /\ user_groups' = user_groups
               /\ ledgers' = ledgers
               /\ pc'[p] = "idle" => tx'[p] = EmptyTx]_vars

\* A join into a group with members has written its membership row and is at
\* the bulk insert, which may fail
C21_Witness ==
    \E p \in Procs :
        /\ pc[p] = "create_ledger_entries_insert"
        /\ req[p].op = "add_user_to_group"
        /\ <<req[p].group_id, req[p].user_id>> \in tx[p].user_groups
        /\ Len(other_users_in_group_ids[p]) = 2

\* C22: create_group is all-or-nothing: its commit adds the group row and the
\* membership row of the owner together, the owner being the only member and
\* the group having no ledger row; no other step of create_group changes a
\* committed row, a failed create_group leaves nothing to be committed, and
\* no committed group has zero members.
GroupCommits(p) ==
    /\ pc[p] = "create_group_commit"
    /\ pc'[p] = "idle"

NoEmptyGroup == \A g \in groups : MembersOf(g.id) # {}

C22_CreateGroupAllOrNothing ==
    [][/\ NoEmptyGroup
       /\ NoEmptyGroup'
       /\ \A p \in Procs :
            req[p].op = "create_group" /\ pc'[p] # pc[p] =>
               IF GroupCommits(p)
               THEN LET g == req[p].group_id
                    IN  /\ response'[p] = "group"
                        /\ g \notin {h.id : h \in groups}
                        /\ groups' = groups \cup {[id |-> g, name |-> req[p].name]}
                        /\ user_groups' = user_groups \cup {<<g, req[p].user_id>>}
                        /\ \A k \in user_groups' : k[1] = g => k[2] = req[p].user_id
                        /\ ledgers' = ledgers
                        /\ \A k \in DOMAIN ledgers' : k[1] # g
               ELSE /\ groups' = groups
                    /\ user_groups' = user_groups
                    /\ ledgers' = ledgers
                    /\ pc'[p] = "idle" => tx'[p] = EmptyTx]_vars

\* A group has been created: it is committed with its owner as the only member
C22_Witness ==
    \E p \in Procs :
        /\ pc[p] = "idle"
        /\ response[p] = "group"
        /\ \E g \in groups : Cardinality(MembersOf(g.id)) = 1
        /\ DOMAIN ledgers = {}

\* C23: the join path is composable.  Given the caller's transaction it writes
\* its membership row and ledger rows into it and neither commits it nor rolls
\* it back: nothing becomes visible before the caller's commit, which makes
\* the row visible, and everything is gone when the caller rolls back.  Given
\* none it commits its own transaction once, and only with the ledger rows of
\* the list it read written.
JoinPath ==
    {"add_user_to_group_insert", "create_ledger_entries_select",
     "create_ledger_entries_insert"}

RowsFor(p) ==
    {<<req[p].group_id, req[p].user_id, m>> :
         m \in Range(other_users_in_group_ids[p])} \cup
    {<<req[p].group_id, m, req[p].user_id>> :
         m \in Range(other_users_in_group_ids[p])}

C23_Composable ==
    [][\A p \in Procs :
         /\ (GivenTx(p) /\ pc[p] \in JoinPath /\ pc'[p] # pc[p]) =>
               /\ groups' = groups
               /\ user_groups' = user_groups
               /\ ledgers' = ledgers
               /\ pc'[p] # "add_user_to_group_commit"
               /\ pc'[p] # "idle" => tx'[p].groups = tx[p].groups
               /\ pc'[p] = "idle" => tx'[p] = EmptyTx
         /\ GroupCommits(p) =>
               /\ tx[p].user_groups = {<<req[p].group_id, req[p].user_id>>}
               /\ user_groups' = user_groups \cup tx[p].user_groups
         /\ (~GivenTx(p) /\ pc[p] \in JoinPath /\ pc'[p] # pc[p]) =>
               /\ user_groups' = user_groups
               /\ ledgers' = ledgers
               /\ pc'[p] # "create_group_commit"
         /\ JoinCommits(p) =>
               /\ tx[p].user_groups = {<<req[p].group_id, req[p].user_id>>}
               /\ tx[p].ledger_ins = RowsFor(p)
               /\ user_groups' = user_groups \cup tx[p].user_groups
               /\ tx'[p] = EmptyTx]_vars

\* create_group has inserted the group row, the join path has added the owner
\* inside the same transaction, and nothing of it is committed yet
C23_Witness ==
    \E p \in Procs :
        /\ pc[p] = "create_group_commit"
        /\ tx[p].groups # {}
        /\ tx[p].user_groups = {<<req[p].group_id, req[p].user_id>>}
        /\ req[p].group_id \notin {h.id : h \in groups}

\* C24: the two variants of the join path are equivalent: from every state
\* that a sequence of joins leads to, for every user and group, the logic-layer
\* variant and the HTTP-layer variant end with the same membership rows, the
\* same ledger rows and the same response, whatever the order in which the
\* members are read, and neither hands the new member to the initializer.
C24_VariantsEquivalent ==
    \A u \in UserIds, g \in GroupIds :
        /\ Handler_add_user_to_group(Database, g, u) =
              add_user_to_group_inner(Database, g, u)
        /\ FkeyViolations(Database, g, u) = {} =>
              Cardinality(add_user_to_group_inner(Database, g, u)) = 1

\* The third member has just joined a group of two whose rows a posting had
\* moved off 0: six rows, four of them 0
C24_Witness ==
    /\ req[1].op = "add_user_to_group"
    /\ response[1] = "user_group_id"
    /\ \E g \in GroupIds :
          /\ Cardinality(MembersOf(g)) = 3
          /\ Cardinality({k \in DOMAIN ledgers : k[1] = g}) = 6
          /\ Cardinality({k \in DOMAIN ledgers : k[1] = g /\ ledgers[k] = 0}) = 4

\* C25: concurrent postings on the same pair of members lose no update: each
\* posting that commits moves row (G,payer,payee) up and row (G,payee,payer)
\* down by its signed delta from the amounts committed just before, whatever
\* other postings on the pair committed while it ran, and I1 holds after it.
C25_NoLostUpdate ==
    [][\A p \in Procs :
         (PostCommits(p) /\ req[p].user_id # req[p].payee_id
                         /\ PayerKey(req[p]) \in DOMAIN ledgers) =>
            /\ PayeeKey(req[p]) \in DOMAIN ledgers
            /\ ledgers'[PayerKey(req[p])] = ledgers[PayerKey(req[p])] + amount[p]
            /\ ledgers'[PayeeKey(req[p])] = ledgers[PayeeKey(req[p])] - amount[p]
            /\ C1_I1']_vars

\* A posting is about to commit while another posting on the same pair waits
\* for a row it has updated
C25_Witness ==
    \E p \in Procs, q \in Procs :
        /\ p # q
        /\ pc[p] = "create_transaction_commit"
        /\ pc[q] \in {"create_transaction_update_payer",
                      "create_transaction_update_payee"}
        /\ {req[p].user_id, req[p].payee_id} = {req[q].user_id, req[q].payee_id}
        /\ req[p].user_id # req[p].payee_id
        /\ req[p].group_id = req[q].group_id
        /\ WaitsFor(q, p)

\* C26: two concurrent postings between the same two members in opposite
\* directions never reach a state in which each holds the lock of one of the
\* two mirrored rows and waits for the row the other holds.
C26_NoDeadlock ==
    \A p \in Procs, q \in Procs : ~(WaitsFor(p, q) /\ WaitsFor(q, p))

\* C27: the ledger agrees with the transaction log: in every committed state,
\* for every group G and distinct members A and B, row (G,A,B) exists and its
\* amount is the sum of the stored (sign-normalized) amounts of the committed
\* transaction rows of G with payer A and payee B minus the sum of those with
\* payer B and payee A; and every committed transaction row has both of its
\* mirrored rows.
RECURSIVE SumOfAmounts(_)
SumOfAmounts(T) ==
    IF T = {} THEN 0
    ELSE LET t == CHOOSE x \in T : TRUE
         IN  t.amount * CopiesIn(t, transactions) + SumOfAmounts(T \ {t})

Posted(g, a, b) ==
    SumOfAmounts({t \in BagToSet(transactions) :
                     t.group_id = g /\ t.payer_id = a /\ t.payee_id = b})

C27_LedgerAgreesWithLog ==
    /\ \A g \in GroupIds : \A a \in MembersOf(g), b \in MembersOf(g) :
          a # b => /\ <<g, a, b>> \in DOMAIN ledgers
                   /\ ledgers[<<g, a, b>>] = Posted(g, a, b) - Posted(g, b, a)
    /\ \A t \in BagToSet(transactions) :
          {<<t.group_id, t.payer_id, t.payee_id>>,
           <<t.group_id, t.payee_id, t.payer_id>>} \subseteq DOMAIN ledgers

\* C28: a posting whose payer and payee are the same member commits no
\* transaction row (and changes no ledger row).
C28_NoSelfPaymentRow ==
    \A t \in BagToSet(transactions) : t.payer_id # t.payee_id

\* C29: amounts stay in the signed 64-bit range without wrap-around: the sign
\* normalization of a posting that goes on to write gives the exact negation
\* of the declared amount for a debit (the declared amount for a credit), and
\* a posting whose delta would take a ledger amount out of range is rejected
\* as a whole, the mirrored rows and the transaction log unchanged.
OutOfRange(p) ==
    \/ /\ pc[p] = "create_transaction_update_payer"
       /\ PayerKey(req[p]) \in DOMAIN ledgers
       /\ CurrentAmount(p, PayerKey(req[p])) + amount[p] \notin I64
    \/ /\ pc[p] = "create_transaction_update_payee"
       /\ PayeeKey(req[p]) \in DOMAIN ledgers
       /\ CurrentAmount(p, PayeeKey(req[p])) - amount[p] \notin I64

C29_NoWrapAround ==
    [][\A p \in Procs :
         /\ (pc[p] = "create_transaction_insert"
                /\ pc'[p] = "create_transaction_update_payer") =>
               amount'[p] = IF req[p].tx_type = "Debit"
                            THEN 0 - req[p].amount ELSE req[p].amount
         /\ (OutOfRange(p) /\ pc'[p] # pc[p]) =>
               /\ pc'[p] = "idle"
               /\ response'[p] = "error"
               /\ tx'[p] = EmptyTx
               /\ ledgers' = ledgers
               /\ transactions' = transactions]_vars

\* C30: the transaction log is append-only: a posting that commits adds
\* exactly one transaction row, no other step adds one, and no step of any
\* request changes or removes a committed transaction row or membership row
\* or deletes a ledger row.
C30_AppendOnly ==
    [][/\ \A t \in BagToSet(transactions) :
             CopiesIn(t, transactions') >= CopiesIn(t, transactions)
       /\ user_groups \subseteq user_groups'
       /\ groups \subseteq groups'
       /\ DOMAIN ledgers \subseteq DOMAIN ledgers'
       /\ \A p \in Procs :
            /\ PostCommits(p) =>
                  BagCardinality(transactions') = BagCardinality(transactions) + 1
            /\ (~PostCommits(p) /\ pc'[p] # pc[p]) =>
                  transactions' = transactions]_vars

\* Two postings have committed and another request has failed since: the log
\* holds the two rows
C30_Witness ==
    /\ Idle
    /\ BagCardinality(transactions) = 2
    /\ \E p \in Procs, q \in Procs :
          /\ response[p] = "transaction"
          /\ response[q] \in {"error", "forbidden", DuplicateKey}

====
